---- MODULE Spec2Model ----
(***************************************************************************)
(* The crates plugin of Relicta (src/plugin.go): Execute / publish, the    *)
(* construction of the `cargo publish` argument list, and the validation   *)
(* of the manifest path and of the registry.                               *)
(*                                                                         *)
(* A Go string is a sequence of one-character strings, so that prefix,     *)
(* substring, join and path normalisation are computed character by        *)
(* character, exactly as the library functions the code calls compute them.*)
(***************************************************************************)
EXTENDS Integers, Sequences, FiniteSets, TLC

VARIABLES
    pc,        \* where the current call stands: idle, running, returned (Execute),
               \* validated (Validate returned)
    env,       \* value of CARGO_REGISTRY_TOKEN seen by the call ("" when unset)
    req,       \* the plugin.ExecuteRequest being served
    dns,       \* the resolver's answer to the call's net.LookupIP
    cfg,       \* the *Config parsed from req.Config
    calls,     \* calls recorded by the command executor during this Execute
    validated, \* number of validateConfig runs during this Execute
    lookups,   \* number of queries net.LookupIP made to the resolver in this call
    tool,      \* what the executor returned: combined output and error
    resp,      \* the *plugin.ExecuteResponse returned
    args,      \* result of buildPublishArgs applied on its own
    ctx,       \* the context.Context of the call: none, live, cancelled
    goerr,     \* the Go error returned next to the response
    vresp,     \* the *plugin.ValidateResponse returned by Validate
    arg,       \* argument of validatePath / validateRegistryURL applied on its own
    result,    \* the error that application returned
    cmdExecutor \* the cmdExecutor field of the CratesPlugin serving the calls

vars == <<pc, env, req, dns, cfg, calls, validated, lookups, tool, resp, args,
          ctx, goerr, vresp, arg, result, cmdExecutor>>

---------------------------------------------------------------------------
(* Bounds of the model                                                     *)

\* largest job count drawn for Config.Jobs
MaxJobs == 2
\* longest feature list drawn for Config.Features
MaxFeatures == 2
\* longest path drawn from PathChars for validatePath
MaxPathLen == 5
\* longest registry string drawn from NameChars for validateRegistryURL
MaxNameLen == 3
\* largest number of addresses in an answer of the resolver
MaxIPs == 2

---------------------------------------------------------------------------
(* Go strings                                                              *)

EmptyStr == <<>>

\* strings.HasPrefix(s, prefix)
HasPrefix(s, prefix) ==
    /\ Len(s) >= Len(prefix)
    /\ SubSeq(s, 1, Len(prefix)) = prefix

\* strings.Contains(s, substr)
Contains(s, substr) ==
    \E i \in 1..(Len(s) - Len(substr) + 1) :
        SubSeq(s, i, i + Len(substr) - 1) = substr

\* the prefix removed as often as it leads the string
RECURSIVE TrimPrefixAll(_, _)
TrimPrefixAll(s, prefix) ==
    IF prefix # <<>> /\ HasPrefix(s, prefix)
    THEN TrimPrefixAll(SubSeq(s, Len(prefix) + 1, Len(s)), prefix)
    ELSE s

\* strings.TrimPrefix(s, prefix): s without the prefix, once, when it has it
TrimPrefix(s, prefix) ==
    IF HasPrefix(s, prefix) THEN SubSeq(s, Len(prefix) + 1, Len(s)) ELSE s

\* strings.Join(elems, sep)
RECURSIVE Join(_, _)
Join(elems, sep) ==
    IF Len(elems) = 0 THEN EmptyStr
    ELSE IF Len(elems) = 1 THEN elems[1]
    ELSE elems[1] \o sep \o Join(Tail(elems), sep)

Digits == <<"0","1","2","3","4","5","6","7","8","9">>

Digit(d) == <<Digits[d + 1]>>

\* fmt.Sprintf("%d", n)
RECURSIVE FormatNat(_)
FormatNat(n) == IF n < 10 THEN Digit(n) ELSE FormatNat(n \div 10) \o Digit(n % 10)

FormatInt(n) == IF n < 0 THEN <<"-">> \o FormatNat(0 - n) ELSE FormatNat(n)   \* "-"

---------------------------------------------------------------------------
(* path/filepath (Unix: Separator = '/')                                   *)

Separator == "/"

\* index of the first '/' of path at or after r, Len(path)+1 when none
RECURSIVE NextSep(_, _)
NextSep(path, r) ==
    IF r > Len(path) \/ path[r] = Separator THEN r ELSE NextSep(path, r + 1)

\* Clean's backtrack over the last element of out: the length out is cut to
RECURSIVE Backtrack(_, _, _)
Backtrack(out, w, dotdot) ==
    IF w > dotdot /\ out[w + 1] # Separator THEN Backtrack(out, w - 1, dotdot) ELSE w

\* the loop of filepath.Clean: r reads path, out is the buffer written so far,
\* dotdot is the length of out that ".." may not backtrack over
RECURSIVE CleanLoop(_, _, _, _, _)
CleanLoop(path, r, out, dotdot, rooted) ==
    LET n == Len(path) IN
    IF r > n THEN out
    ELSE IF path[r] = Separator THEN
        CleanLoop(path, r + 1, out, dotdot, rooted)
    ELSE IF path[r] = "." /\ (r = n \/ path[r + 1] = Separator) THEN
        CleanLoop(path, r + 1, out, dotdot, rooted)
    ELSE IF path[r] = "." /\ path[r + 1] = "." /\ (r + 1 = n \/ path[r + 2] = Separator) THEN
        IF Len(out) > dotdot THEN
            CleanLoop(path, r + 2,
                      SubSeq(out, 1, Backtrack(out, Len(out) - 1, dotdot)),
                      dotdot, rooted)
        ELSE IF ~rooted THEN
            LET o == (IF Len(out) > 0 THEN Append(out, Separator) ELSE out) \o <<".",".">>   \* ".."
            IN  CleanLoop(path, r + 2, o, Len(o), rooted)
        ELSE CleanLoop(path, r + 2, out, dotdot, rooted)
    ELSE
        LET o == IF (rooted /\ Len(out) # 1) \/ (~rooted /\ Len(out) # 0)
                 THEN Append(out, Separator) ELSE out
            e == NextSep(path, r)
        IN  CleanLoop(path, e, o \o SubSeq(path, r, e - 1), dotdot, rooted)

\* filepath.Clean(path)
Clean(path) ==
    IF path = EmptyStr THEN <<".">>   \* "."
    ELSE LET rooted == path[1] = Separator
             out == IF rooted THEN CleanLoop(path, 2, <<"/">>, 1, TRUE)   \* "/"
                    ELSE CleanLoop(path, 1, EmptyStr, 0, FALSE)
         IN  IF out = EmptyStr THEN <<".">> ELSE out   \* "."

\* filepath.IsAbs(path)
IsAbs(path) == HasPrefix(path, <<"/">>)   \* "/"

\* index of the last '/' of path at or before i, 0 when none
RECURSIVE LastSep(_, _)
LastSep(path, i) ==
    IF i = 0 \/ path[i] = Separator THEN i ELSE LastSep(path, i - 1)

\* filepath.Dir(path): everything up to the last separator, cleaned
Dir(path) == Clean(SubSeq(path, 1, LastSep(path, Len(path))))

\* a Go error value: nil, or an error with its text
Nil == [isNil |-> TRUE, text |-> EmptyStr]

Errorf(text) == [isNil |-> FALSE, text |-> text]

ErrAbsolute == Errorf(<<"a","b","s","o","l","u","t","e"," ","p","a","t","h","s"," ","a","r","e"," ","n","o","t"," ","a","l","l","o","w","e","d">>)   \* "absolute paths are not allowed"

ErrTraversal == Errorf(<<"p","a","t","h"," ","t","r","a","v","e","r","s","a","l"," ","d","e","t","e","c","t","e","d",":"," ","c","a","n","n","o","t"," ","u","s","e"," ","'",".",".","'"," ","t","o"," ","e","s","c","a","p","e"," ","w","o","r","k","i","n","g"," ","d","i","r","e","c","t","o","r","y">>)   \* "path traversal detected: cannot use '..' to escape working directory"

\* validatePath without its test of absolute paths
validatePathRelativeOnly(path) ==
    IF path = EmptyStr THEN Nil
    ELSE LET cleaned == Clean(path) IN
         IF HasPrefix(cleaned, <<".",".">>) \/ Contains(cleaned, <<Separator>> \o <<".",".">>)   \* ".." ".."
         THEN ErrTraversal
         ELSE Nil

\* validatePath(path): Nil, or the error it returns
validatePath(path) ==
    IF path = EmptyStr THEN Nil
    ELSE LET cleaned == Clean(path) IN
         IF IsAbs(cleaned) THEN ErrAbsolute
         ELSE IF HasPrefix(cleaned, <<".",".">>) \/ Contains(cleaned, <<Separator>> \o <<".",".">>)   \* ".." ".."
              THEN ErrTraversal
              ELSE Nil

---------------------------------------------------------------------------
(* regexp, net/url and net, as far as validateRegistryURL uses them        *)

LowerLetters == <<"a","b","c","d","e","f","g","h","i","j","k","l","m","n","o","p","q","r","s","t","u","v","w","x","y","z">>   \* "abcdefghijklmnopqrstuvwxyz"

UpperLetters == <<"A","B","C","D","E","F","G","H","I","J","K","L","M","N","O","P","Q","R","S","T","U","V","W","X","Y","Z">>   \* "ABCDEFGHIJKLMNOPQRSTUVWXYZ"

IsLetter(c) == \E i \in 1..26 : c = LowerLetters[i] \/ c = UpperLetters[i]

IsDigit(c) == \E i \in 1..10 : c = Digits[i]

\* strings.ToLower on one ASCII character
LowerChar(c) ==
    IF \E i \in 1..26 : c = UpperLetters[i]
    THEN LowerLetters[CHOOSE i \in 1..26 : c = UpperLetters[i]]
    ELSE c

ToLower(s) == [i \in 1..Len(s) |-> LowerChar(s[i])]

\* the pattern with \w in place of a-zA-Z0-9, which lets the underscore in
validNameUnderscore(s) ==
    /\ Len(s) >= 1
    /\ IsLetter(s[1])
    /\ \A i \in 2..Len(s) : IsLetter(s[i]) \/ IsDigit(s[i]) \/ s[i] \in {".", "-", "_"}

\* validName.MatchString(s) for ^[a-zA-Z][a-zA-Z0-9.-]*$
validName(s) ==
    /\ Len(s) >= 1
    /\ IsLetter(s[1])
    /\ \A i \in 2..Len(s) : IsLetter(s[i]) \/ IsDigit(s[i]) \/ s[i] = "." \/ s[i] = "-"

\* strings.LastIndex(s, substr), counted from 1; 0 when s does not contain substr
LastIndex(s, substr) ==
    IF Contains(s, substr)
    THEN CHOOSE i \in 1..(Len(s) - Len(substr) + 1) :
            /\ SubSeq(s, i, i + Len(substr) - 1) = substr
            /\ \A j \in (i + 1)..(Len(s) - Len(substr) + 1) :
                    SubSeq(s, j, j + Len(substr) - 1) # substr
    ELSE 0

\* url.getScheme(rawURL): [err, scheme, rest]
RECURSIVE getScheme(_, _)
getScheme(rawURL, i) ==
    IF i > Len(rawURL) THEN [err |-> FALSE, scheme |-> EmptyStr, rest |-> rawURL]
    ELSE LET c == rawURL[i] IN
         IF IsLetter(c) \/ (i > 1 /\ (IsDigit(c) \/ c \in {"+", "-", "."}))
         THEN getScheme(rawURL, i + 1)
         ELSE IF c = ":" THEN
            IF i = 1 THEN [err |-> TRUE, scheme |-> EmptyStr, rest |-> EmptyStr]
            ELSE [err |-> FALSE, scheme |-> SubSeq(rawURL, 1, i - 1),
                  rest |-> SubSeq(rawURL, i + 1, Len(rawURL))]
         ELSE [err |-> FALSE, scheme |-> EmptyStr, rest |-> rawURL]

\* url.validOptionalPort(port): "" or ":" followed by digits only
validOptionalPort(port) ==
    \/ port = EmptyStr
    \/ /\ port[1] = ":"
       /\ \A i \in 2..Len(port) : IsDigit(port[i])

\* the characters url.parseHost accepts unescaped in a host
HostChar(c) ==
    \/ IsLetter(c) \/ IsDigit(c)
    \/ c \in {"-", "_", ".", "~", "!", "$", "&", "'", "(", ")", "*", "+", ",", ";",
              "=", ":", "[", "]", "<", ">"}

\* url.parseHost(host), i being the index of the last "]" of a bracketed host
\* and of the last ":" of another: whether it returns no error
portOk(host, i) ==
    IF HasPrefix(host, <<"[">>)   \* "["
    THEN i > 0 /\ validOptionalPort(SubSeq(host, i + 1, Len(host)))
    ELSE i > 0 => validOptionalPort(SubSeq(host, i, Len(host)))

parseHostOk(host) ==
    /\ portOk(host, LastIndex(host, IF HasPrefix(host, <<"[">>) THEN <<"]">> ELSE <<":">>))   \* "[" "]" ":"
    /\ \A i \in 1..Len(host) : HostChar(host[i])

\* the URL url.Parse returns: whether with an error, its Scheme and its Host
URL(err, scheme, host) == [err |-> err, Scheme |-> scheme, Host |-> host]

\* url.parse after getScheme, for the scheme (lower-cased) and the rest it found
parseRest(scheme, rest) ==
    IF ~HasPrefix(rest, <<"/">>) THEN   \* "/"
        IF scheme # EmptyStr THEN URL(FALSE, scheme, EmptyStr)     \* an opaque URL
        ELSE IF Contains(SubSeq(rest, 1, NextSep(rest, 1) - 1), <<":">>)   \* ":"
             THEN URL(TRUE, EmptyStr, EmptyStr)   \* first path segment cannot contain colon
             ELSE URL(FALSE, scheme, EmptyStr)
    ELSE IF HasPrefix(rest, <<"/","/">>) /\ (scheme # EmptyStr \/ ~HasPrefix(rest, <<"/","/","/">>)) THEN   \* "//" "///"
        LET authority == SubSeq(rest, 3, NextSep(rest, 3) - 1) IN
        IF parseHostOk(authority) THEN URL(FALSE, scheme, authority)
        ELSE URL(TRUE, EmptyStr, EmptyStr)
    ELSE URL(FALSE, scheme, EmptyStr)

\* url.parse after getScheme returned s
parseScheme(s) ==
    IF s.err THEN URL(TRUE, EmptyStr, EmptyStr) ELSE parseRest(ToLower(s.scheme), s.rest)

\* url.Parse(rawURL) for a URL without fragment, query, userinfo and escapes
urlParse(rawURL) == parseScheme(getScheme(rawURL, 1))

\* url.splitHostPort(hostPort), the host part
splitHost(host, colon) ==
    IF colon > 0 /\ validOptionalPort(SubSeq(host, colon, Len(host)))
    THEN SubSeq(host, 1, colon - 1) ELSE host

\* a host without the brackets of an IPv6 literal
unbracket(h) ==
    IF HasPrefix(h, <<"[">>) /\ h[Len(h)] = "]" THEN SubSeq(h, 2, Len(h) - 1) ELSE h   \* "["

\* (*URL).Hostname(): Host without a valid port and without the brackets
Hostname(host) == unbracket(splitHost(host, LastIndex(host, <<":">>)))   \* ":"

\* A net.IP is its bytes: 4 for an IPv4 address (in whichever form Go holds it:
\* every test below first normalises with To4), 16 for an IPv6 address.
IsV4(ip) == Len(ip) = 4

\* 2 to the power n, n in 0..8
Pow2(n) == <<1, 2, 4, 8, 16, 32, 64, 128, 256>>[n + 1]

\* (*net.IPNet).Contains(ip) for the network base/bits of ip's own family:
\* the first `bits` bits of ip are those of base
InBlock(ip, base, bits) ==
    /\ Len(ip) = Len(base)
    /\ \A i \in 1..Len(ip) :
          IF 8 * i <= bits THEN ip[i] = base[i]
          ELSE IF 8 * (i - 1) < bits
               THEN ip[i] \div Pow2(8 * i - bits) = base[i] \div Pow2(8 * i - bits)
               ELSE TRUE

\* privateRanges and cloudMetadata of isPrivateIP, as <<base, prefix length>>
allRanges ==
    << <<<<10, 0, 0, 0>>, 8>>,
       <<<<172, 16, 0, 0>>, 12>>,
       <<<<192, 168, 0, 0>>, 16>>,
       <<<<127, 0, 0, 0>>, 8>>,
       <<<<169, 254, 0, 0>>, 16>>,
       <<<<0, 0, 0, 0>>, 8>>,
       <<<<169, 254, 169, 254>>, 32>>,
       <<<<253, 0, 14, 194, 0, 0, 0, 0, 0, 0, 0, 0, 0, 0, 2, 84>>, 128>> >>

\* net.IP.IsLoopback
IsLoopback(ip) ==
    IF IsV4(ip) THEN ip[1] = 127
    ELSE ip = <<0, 0, 0, 0, 0, 0, 0, 0, 0, 0, 0, 0, 0, 0, 0, 1>>

\* net.IP.IsLinkLocalUnicast
IsLinkLocalUnicast(ip) ==
    IF IsV4(ip) THEN ip[1] = 169 /\ ip[2] = 254
    ELSE ip[1] = 254 /\ ip[2] \div 64 = 2

\* net.IP.IsLinkLocalMulticast
IsLinkLocalMulticast(ip) ==
    IF IsV4(ip) THEN ip[1] = 224 /\ ip[2] = 0 /\ ip[3] = 0
    ELSE ip[1] = 255 /\ ip[2] % 16 = 2

\* net.IP.IsPrivate
IsPrivate(ip) ==
    IF IsV4(ip)
    THEN \/ ip[1] = 10
         \/ ip[1] = 172 /\ ip[2] \div 16 = 1
         \/ ip[1] = 192 /\ ip[2] = 168
    ELSE ip[1] \div 2 = 126

\* isPrivateIP(ip)
isPrivateIP(ip) ==
    \/ \E k \in 1..Len(allRanges) : InBlock(ip, allRanges[k][1], allRanges[k][2])
    \/ IsLoopback(ip) \/ IsLinkLocalUnicast(ip) \/ IsLinkLocalMulticast(ip) \/ IsPrivate(ip)

\* net.LookupIP(host) with the resolver answering ans = [err, ips]; an empty
\* host is refused without asking the resolver
LookupIP(host, ans) ==
    IF host = EmptyStr THEN [err |-> TRUE, ips |-> <<>>] ELSE ans

\* isLocalhost of validateRegistryURL
isLocalhost(host) == host = <<"l","o","c","a","l","h","o","s","t">> \/ host = <<"1","2","7",".","0",".","0",".","1">> \/ host = <<":",":","1">>   \* "localhost" "127.0.0.1" "::1"

\* the check of the resolved addresses looking at the first address only
checkResolvedFirstOnly(r) ==
    IF r.err THEN Nil
    ELSE IF Len(r.ips) > 0 /\ isPrivateIP(r.ips[1])
         THEN Errorf(<<"U","R","L","s"," ","p","o","i","n","t","i","n","g"," ","t","o"," ","p","r","i","v","a","t","e"," ","n","e","t","w","o","r","k","s"," ","a","r","e"," ","n","o","t"," ","a","l","l","o","w","e","d">>)   \* "URLs pointing to private networks are not allowed"
         ELSE Nil

\* the check of the resolved addresses refusing a host that does not resolve
checkResolvedFailClosed(r) ==
    IF r.err THEN Errorf(<<"c","a","n","n","o","t"," ","r","e","s","o","l","v","e"," ","h","o","s","t">>)   \* "cannot resolve host"
    ELSE IF \E i \in 1..Len(r.ips) : isPrivateIP(r.ips[i])
         THEN Errorf(<<"U","R","L","s"," ","p","o","i","n","t","i","n","g"," ","t","o"," ","p","r","i","v","a","t","e"," ","n","e","t","w","o","r","k","s"," ","a","r","e"," ","n","o","t"," ","a","l","l","o","w","e","d">>)   \* "URLs pointing to private networks are not allowed"
         ELSE Nil

\* validateRegistryURL, the check of the resolved addresses
checkResolved(r) ==
    IF r.err THEN Nil
    ELSE IF \E i \in 1..Len(r.ips) : isPrivateIP(r.ips[i])
         THEN Errorf(<<"U","R","L","s"," ","p","o","i","n","t","i","n","g"," ","t","o"," ","p","r","i","v","a","t","e"," ","n","e","t","w","o","r","k","s"," ","a","r","e"," ","n","o","t"," ","a","l","l","o","w","e","d">>)   \* "URLs pointing to private networks are not allowed"
         ELSE Nil

\* HTTPS required of every host, the loopback forms included
insecureAnyHost(scheme, host) == scheme # <<"h","t","t","p","s">> /\ scheme # <<"s","p","a","r","s","e","+","h","t","t","p","s">>   \* "https" "sparse+https"

\* whether validateRegistryURL requires HTTPS of this scheme and host
insecure(scheme, host) ==
    scheme # <<"h","t","t","p","s">> /\ ~isLocalhost(host) /\ scheme # <<"s","p","a","r","s","e","+","h","t","t","p","s">>   \* "https" "sparse+https"

\* validateRegistryURL, from the scheme and the hostname of the parsed URL on
checkHost(scheme, host, ans) ==
    IF insecure(scheme, host)
    THEN Errorf(<<"o","n","l","y"," ","H","T","T","P","S"," ","U","R","L","s"," ","a","r","e"," ","a","l","l","o","w","e","d"," ","(","g","o","t"," ">> \o scheme \o <<")">>)   \* "only HTTPS URLs are allowed (got " ")"
    ELSE IF isLocalhost(host) THEN Nil
    ELSE checkResolved(LookupIP(host, ans))

\* validateRegistryURL, from the result of url.Parse on (the %w part of
\* "invalid URL: %w" is left out)
checkURL(parsedURL, ans) ==
    IF parsedURL.err THEN Errorf(<<"i","n","v","a","l","i","d"," ","U","R","L">>)   \* "invalid URL"
    ELSE checkHost(parsedURL.Scheme, Hostname(parsedURL.Host), ans)

\* validateRegistryURL(registryURL) with the resolver answering ans: Nil, or
\* the error it returns
validateRegistryURL(registryURL, ans) ==
    IF ~Contains(registryURL, <<":","/","/">>) THEN   \* "://"
        IF ~validName(registryURL) THEN Errorf(<<"i","n","v","a","l","i","d"," ","r","e","g","i","s","t","r","y"," ","n","a","m","e"," ","f","o","r","m","a","t">>) ELSE Nil   \* "invalid registry name format"
    ELSE checkURL(urlParse(registryURL), ans)

\* whether validateRegistryURL has the resolver asked for this parsed URL: it
\* reaches net.LookupIP, which refuses an empty host by itself
lookupReached(scheme, host) ==
    ~insecure(scheme, host) /\ ~isLocalhost(host) /\ host # EmptyStr

resolvesURL(parsedURL) ==
    ~parsedURL.err /\ lookupReached(parsedURL.Scheme, Hostname(parsedURL.Host))

\* whether validateRegistryURL(registryURL) has the resolver asked
resolves(registryURL) ==
    Contains(registryURL, <<":","/","/">>) /\ resolvesURL(urlParse(registryURL))   \* "://"

---------------------------------------------------------------------------
(* Config, parseConfig and buildPublishArgs                                *)

\* A raw configuration map[string]any is a record holding the keys it has:
\* token, registry, manifest_path (strings), allow_dirty, no_verify,
\* all_features, no_default_features (booleans), features (strings),
\* jobs ([type, val], the Go type of the number and its value).
HasKey(raw, key) == key \in DOMAIN raw

\* GetString preferring the environment variable to the key
GetStringEnvFirst(raw, key, envVal, default) ==
    IF envVal # EmptyStr THEN envVal
    ELSE IF HasKey(raw, key) /\ raw[key] # EmptyStr THEN raw[key]
    ELSE default

\* helpers.ConfigParser.GetString(key, envVar, default) with the environment
\* variable holding envVal: the non-empty value of the key, else the non-empty
\* environment value, else the default
GetString(raw, key, envVal, default) ==
    IF HasKey(raw, key) /\ raw[key] # EmptyStr THEN raw[key]
    ELSE IF envVal # EmptyStr THEN envVal
    ELSE default

\* helpers.ConfigParser.GetBool(key, default)
GetBool(raw, key, default) == IF HasKey(raw, key) THEN raw[key] ELSE default

\* helpers.ConfigParser.GetStringSlice(key, default)
GetStringSlice(raw, key, default) == IF HasKey(raw, key) THEN raw[key] ELSE default

\* helpers.ConfigParser.GetInt(key, default)
GetInt(raw, key, default) == IF HasKey(raw, key) THEN raw[key].val ELSE default

\* parseConfig(raw) with CARGO_REGISTRY_TOKEN holding envToken
parseConfig(raw, envToken) ==
    [ Token             |-> GetString(raw, "token", envToken, EmptyStr),
      Registry          |-> GetString(raw, "registry", EmptyStr, EmptyStr),
      AllowDirty        |-> GetBool(raw, "allow_dirty", FALSE),
      NoVerify          |-> GetBool(raw, "no_verify", FALSE),
      ManifestPath      |-> GetString(raw, "manifest_path", EmptyStr, <<"C","a","r","g","o",".","t","o","m","l">>),   \* "Cargo.toml"
      Features          |-> GetStringSlice(raw, "features", <<>>),
      AllFeatures       |-> GetBool(raw, "all_features", FALSE),
      NoDefaultFeatures |-> GetBool(raw, "no_default_features", FALSE),
      Jobs              |-> GetInt(raw, "jobs", 0) ]

FlagToken == <<"-","-","t","o","k","e","n">>   \* "--token"

FlagRegistry == <<"-","-","r","e","g","i","s","t","r","y">>   \* "--registry"

FlagAllowDirty == <<"-","-","a","l","l","o","w","-","d","i","r","t","y">>   \* "--allow-dirty"

FlagNoVerify == <<"-","-","n","o","-","v","e","r","i","f","y">>   \* "--no-verify"

FlagManifestPath == <<"-","-","m","a","n","i","f","e","s","t","-","p","a","t","h">>   \* "--manifest-path"

FlagFeatures == <<"-","-","f","e","a","t","u","r","e","s">>   \* "--features"

FlagAllFeatures == <<"-","-","a","l","l","-","f","e","a","t","u","r","e","s">>   \* "--all-features"

FlagNoDefaultFeatures == <<"-","-","n","o","-","d","e","f","a","u","l","t","-","f","e","a","t","u","r","e","s">>   \* "--no-default-features"

FlagJobs == <<"-","-","j","o","b","s">>   \* "--jobs"

\* the manifest path is one the code treats as non-default
nonDefaultManifest(c) == c.ManifestPath # EmptyStr /\ c.ManifestPath # <<"C","a","r","g","o",".","t","o","m","l">>   \* "Cargo.toml"

\* buildPublishArgs with --manifest-path written after --features
buildPublishArgsSwapped(c) ==
    << <<"p","u","b","l","i","s","h">> >>   \* "publish"
    \o (IF c.Token # EmptyStr THEN <<FlagToken, c.Token>> ELSE <<>>)
    \o (IF c.Registry # EmptyStr THEN <<FlagRegistry, c.Registry>> ELSE <<>>)
    \o (IF c.AllowDirty THEN <<FlagAllowDirty>> ELSE <<>>)
    \o (IF c.NoVerify THEN <<FlagNoVerify>> ELSE <<>>)
    \o (IF Len(c.Features) > 0 THEN <<FlagFeatures, Join(c.Features, <<",">>)>> ELSE <<>>)   \* ","
    \o (IF nonDefaultManifest(c) THEN <<FlagManifestPath, c.ManifestPath>> ELSE <<>>)
    \o (IF c.AllFeatures THEN <<FlagAllFeatures>> ELSE <<>>)
    \o (IF c.NoDefaultFeatures THEN <<FlagNoDefaultFeatures>> ELSE <<>>)
    \o (IF c.Jobs > 0 THEN <<FlagJobs, FormatInt(c.Jobs)>> ELSE <<>>)

\* buildPublishArgs with the job count tested by >= 0 instead of > 0
buildPublishArgsJobsZero(c) ==
    << <<"p","u","b","l","i","s","h">> >>   \* "publish"
    \o (IF c.Token # EmptyStr THEN <<FlagToken, c.Token>> ELSE <<>>)
    \o (IF c.Registry # EmptyStr THEN <<FlagRegistry, c.Registry>> ELSE <<>>)
    \o (IF c.AllowDirty THEN <<FlagAllowDirty>> ELSE <<>>)
    \o (IF c.NoVerify THEN <<FlagNoVerify>> ELSE <<>>)
    \o (IF nonDefaultManifest(c) THEN <<FlagManifestPath, c.ManifestPath>> ELSE <<>>)
    \o (IF Len(c.Features) > 0 THEN <<FlagFeatures, Join(c.Features, <<",">>)>> ELSE <<>>)   \* ","
    \o (IF c.AllFeatures THEN <<FlagAllFeatures>> ELSE <<>>)
    \o (IF c.NoDefaultFeatures THEN <<FlagNoDefaultFeatures>> ELSE <<>>)
    \o (IF c.Jobs >= 0 THEN <<FlagJobs, FormatInt(c.Jobs)>> ELSE <<>>)

\* buildPublishArgs(cfg)
buildPublishArgs(c) ==
    << <<"p","u","b","l","i","s","h">> >>   \* "publish"
    \o (IF c.Token # EmptyStr THEN <<FlagToken, c.Token>> ELSE <<>>)
    \o (IF c.Registry # EmptyStr THEN <<FlagRegistry, c.Registry>> ELSE <<>>)
    \o (IF c.AllowDirty THEN <<FlagAllowDirty>> ELSE <<>>)
    \o (IF c.NoVerify THEN <<FlagNoVerify>> ELSE <<>>)
    \o (IF nonDefaultManifest(c) THEN <<FlagManifestPath, c.ManifestPath>> ELSE <<>>)
    \o (IF Len(c.Features) > 0 THEN <<FlagFeatures, Join(c.Features, <<",">>)>> ELSE <<>>)   \* ","
    \o (IF c.AllFeatures THEN <<FlagAllFeatures>> ELSE <<>>)
    \o (IF c.NoDefaultFeatures THEN <<FlagNoDefaultFeatures>> ELSE <<>>)
    \o (IF c.Jobs > 0 THEN <<FlagJobs, FormatInt(c.Jobs)>> ELSE <<>>)

\* getRegistryName(cfg)
getRegistryName(c) == IF c.Registry # EmptyStr THEN c.Registry ELSE <<"c","r","a","t","e","s",".","i","o">>   \* "crates.io"

\* fmt.Errorf(prefix + ": %w", err) when err is not nil, nil otherwise
wrap(prefix, err) == IF err.isNil THEN Nil ELSE Errorf(prefix \o err.text)

\* validateConfig after validatePath returned perr
validateRegistry(perr, c, ans) ==
    IF ~perr.isNil THEN perr
    ELSE IF c.Registry # EmptyStr
         THEN wrap(<<"i","n","v","a","l","i","d"," ","r","e","g","i","s","t","r","y",":"," ">>, validateRegistryURL(c.Registry, ans))   \* "invalid registry: "
         ELSE Nil

\* validateConfig(cfg) with the resolver answering ans: Nil, or the error
validateConfig(c, ans) ==
    validateRegistry(wrap(<<"i","n","v","a","l","i","d"," ","m","a","n","i","f","e","s","t","_","p","a","t","h",":"," ">>, validatePath(c.ManifestPath)), c, ans)   \* "invalid manifest_path: "

\* number of net.LookupIP calls validateConfig(cfg) makes
validateConfigLookups(c) ==
    IF validatePath(c.ManifestPath).isNil /\ c.Registry # EmptyStr /\ resolves(c.Registry)
    THEN 1 ELSE 0

---------------------------------------------------------------------------
(* Execute and publish                                                     *)

HookPostPublish == <<"p","o","s","t","-","p","u","b","l","i","s","h">>   \* "post-publish"

\* a nil map[string]any
NoOutputs == [k \in {} |-> TRUE]

\* Execute, default case: the hook is not handled
unhandledResponse(hook) ==
    [ Success |-> TRUE,
      Message |-> <<"H","o","o","k"," ">> \o hook \o <<" ","n","o","t"," ","h","a","n","d","l","e","d">>,   \* "Hook " " not handled"
      Error   |-> EmptyStr,
      Outputs |-> NoOutputs ]

\* the validation failure reported in Message instead of Error
invalidResponseNoError(err) ==
    [ Success |-> FALSE,
      Message |-> <<"c","o","n","f","i","g","u","r","a","t","i","o","n"," ","v","a","l","i","d","a","t","i","o","n"," ","f","a","i","l","e","d",":"," ">> \o err.text,   \* "configuration validation failed: "
      Error   |-> EmptyStr,
      Outputs |-> NoOutputs ]

\* publish: validateConfig returned err
invalidResponse(err) ==
    [ Success |-> FALSE,
      Message |-> EmptyStr,
      Error   |-> <<"c","o","n","f","i","g","u","r","a","t","i","o","n"," ","v","a","l","i","d","a","t","i","o","n"," ","f","a","i","l","e","d",":"," ">> \o err.text,   \* "configuration validation failed: "
      Outputs |-> NoOutputs ]

\* publish: the dry-run response
dryRunResponse(c, version, a) ==
    [ Success |-> TRUE,
      Message |-> <<"W","o","u","l","d"," ","p","u","b","l","i","s","h"," ","c","r","a","t","e"," ","v","e","r","s","i","o","n"," ">> \o version \o <<" ","t","o"," ">> \o getRegistryName(c),   \* "Would publish crate version " " to "
      Error   |-> EmptyStr,
      Outputs |-> [ version       |-> version,
                    registry      |-> c.Registry,
                    manifest_path |-> c.ManifestPath,
                    allow_dirty   |-> c.AllowDirty,
                    no_verify     |-> c.NoVerify,
                    command       |-> <<"c","a","r","g","o"," ","p","u","b","l","i","s","h"," ">> \o Join(a, <<" ">>) ] ]   \* "cargo publish " " "

ErrNoToken ==
    <<"n","o"," ","A","P","I"," ","t","o","k","e","n"," ","p","r","o","v","i","d","e","d",":"," ","s","e","t"," ","t","o","k","e","n"," ","i","n"," ","c","o","n","f","i","g"," ","o","r"," ","C","A","R","G","O","_","R","E","G","I","S","T","R","Y","_","T","O","K","E","N"," ","e","n","v","i","r","o","n","m","e","n","t"," ","v","a","r","i","a","b","l","e">>   \* "no API token provided: set token in config or CARGO_REGISTRY_TOKEN environment variable"

\* publish: no token is available
noTokenResponse ==
    [ Success |-> FALSE, Message |-> EmptyStr, Error |-> ErrNoToken, Outputs |-> NoOutputs ]

\* the working directory taken from the manifest path even when it is the default
workDirAlways(c) == Dir(c.ManifestPath)

\* publish: the working directory determined from the manifest path
workDir(c) == IF nonDefaultManifest(c) THEN Dir(c.ManifestPath) ELSE EmptyStr

\* publish: the calls made on the executor, as the executor records them
executorCalls(dir, a) ==
    IF dir # EmptyStr
    THEN << [Method |-> "RunInDir", Dir |-> dir, Name |-> <<"c","a","r","g","o">>, Args |-> a] >>   \* "cargo"
    ELSE << [Method |-> "Run", Dir |-> EmptyStr, Name |-> <<"c","a","r","g","o">>, Args |-> a] >>   \* "cargo"

\* the failure response without the captured output
failedResponseNoOutput(err, output) ==
    [ Success |-> FALSE,
      Message |-> EmptyStr,
      Error   |-> <<"c","a","r","g","o"," ","p","u","b","l","i","s","h"," ","f","a","i","l","e","d",":"," ">> \o err.text,   \* "cargo publish failed: "
      Outputs |-> NoOutputs ]

\* publish: the executor returned err
failedResponse(err, output) ==
    [ Success |-> FALSE,
      Message |-> EmptyStr,
      Error   |-> <<"c","a","r","g","o"," ","p","u","b","l","i","s","h"," ","f","a","i","l","e","d",":"," ">> \o err.text \o <<"\n","O","u","t","p","u","t",":"," ">> \o output,   \* "cargo publish failed: " "\nOutput: "
      Outputs |-> NoOutputs ]

\* publish: the executor returned no error
publishedResponse(c, version, output) ==
    [ Success |-> TRUE,
      Message |-> <<"P","u","b","l","i","s","h","e","d"," ","c","r","a","t","e"," ","v","e","r","s","i","o","n"," ">> \o version \o <<" ","t","o"," ">> \o getRegistryName(c),   \* "Published crate version " " to "
      Error   |-> EmptyStr,
      Outputs |-> [ version |-> version, registry |-> c.Registry, output |-> output ] ]

\* the switch of Execute sending every hook to publish
dispatchAll(hook) == "publish"

\* Execute: the case of the switch on req.Hook
dispatch(hook) == IF hook = HookPostPublish THEN "publish" ELSE "default"

\* the response of a call that has not returned
Pending == [pending |-> TRUE]

\* how far a call of Execute got: returned with resp, or running the calls cs
\* of the executor; v counts the runs of validateConfig and n the calls of
\* net.LookupIP it made
Returned(r) ==
    [pc |-> "returned", calls |-> <<>>, resp |-> r, err |-> Nil, validated |-> 0, lookups |-> 0]

Running(cs) ==
    [pc |-> "running", calls |-> cs, resp |-> Pending, err |-> Pending,
     validated |-> 0, lookups |-> 0]

Validated(p, n) == [p EXCEPT !.validated = 1, !.lookups = n]

\* publish without its dry-run return
publishRunLive(c, a, version, dryRun) ==
    IF c.Token = EmptyStr THEN Returned(noTokenResponse)
    ELSE Running(executorCalls(workDir(c), a))

\* publish without its token check
publishRunNoTokenCheck(c, a, version, dryRun) ==
    IF dryRun THEN Returned(dryRunResponse(c, version, a))
    ELSE Running(executorCalls(workDir(c), a))

\* publish checking the token before the dry-run return
publishRunTokenFirst(c, a, version, dryRun) ==
    IF c.Token = EmptyStr THEN Returned(noTokenResponse)
    ELSE IF dryRun THEN Returned(dryRunResponse(c, version, a))
    ELSE Running(executorCalls(workDir(c), a))

\* publish, from the dry-run test on: args and version are computed
publishRun(c, a, version, dryRun) ==
    IF dryRun THEN Returned(dryRunResponse(c, version, a))
    ELSE IF c.Token = EmptyStr THEN Returned(noTokenResponse)
    ELSE Running(executorCalls(workDir(c), a))

\* publish checking the token of a real run before the validation error
publishValidatedTokenFirst(err, c, releaseCtx, dryRun) ==
    IF ~dryRun /\ c.Token = EmptyStr THEN Returned(noTokenResponse)
    ELSE IF ~err.isNil THEN Returned(invalidResponse(err))
    ELSE publishRun(c, buildPublishArgs(c), TrimPrefix(releaseCtx.Version, <<"v">>), dryRun)   \* "v"

\* publish, after validateConfig returned err
publishValidated(err, c, releaseCtx, dryRun) ==
    IF ~err.isNil THEN Returned(invalidResponse(err))
    ELSE publishRun(c, buildPublishArgs(c), TrimPrefix(releaseCtx.Version, <<"v">>), dryRun)   \* "v"

\* publish(ctx, cfg, releaseCtx, dryRun) up to its return or to the call of the
\* executor, with the resolver answering ans
publish(c, releaseCtx, dryRun, ans) ==
    Validated(publishValidated(validateConfig(c, ans), c, releaseCtx, dryRun),
              validateConfigLookups(c))

\* publish invoking the executor once more after a failure
publishResultRetry(cs, c, releaseCtx, output, err) ==
    IF ~err.isNil /\ Len(cs) < 2
    THEN [pc |-> "running", calls |-> cs \o cs, resp |-> Pending, err |-> Pending]
    ELSE IF ~err.isNil
    THEN [pc |-> "returned", calls |-> cs, resp |-> failedResponse(err, output), err |-> Nil]
    ELSE [pc |-> "returned", calls |-> cs,
          resp |-> publishedResponse(c, TrimPrefix(releaseCtx.Version, <<"v">>), output),   \* "v"
          err |-> Nil]

\* publish after the executor, called cs, returned (output, err)
publishResult(cs, c, releaseCtx, output, err) ==
    IF ~err.isNil
    THEN [pc |-> "returned", calls |-> cs, resp |-> failedResponse(err, output), err |-> Nil]
    ELSE [pc |-> "returned", calls |-> cs,
          resp |-> publishedResponse(c, TrimPrefix(releaseCtx.Version, <<"v">>), output),   \* "v"
          err |-> Nil]

\* Execute(ctx, req) with cfg parsed, the resolver answering ans, up to its
\* return or to the call of the executor
execute(r, c, ans) ==
    IF dispatch(r.Hook) = "publish"
    THEN publish(c, r.Context, r.DryRun, ans)
    ELSE Returned(unhandledResponse(r.Hook))


---------------------------------------------------------------------------
(* Validate                                                                *)

\* helpers.ValidationBuilder.AddError(field, message)
AddError(errors, field, message) == Append(errors, [Field |-> field, Message |-> message])

\* Validate: the error of a field's check, if any, is added to the builder
addIfError(errors, field, err) ==
    IF ~err.isNil THEN AddError(errors, field, err.text) ELSE errors

\* Validate leaving the registry unchecked once a field has failed
checkRegistryShortCircuit(errors, registry, ans) ==
    IF registry # EmptyStr /\ errors = <<>>
    THEN addIfError(errors, <<"r","e","g","i","s","t","r","y">>, validateRegistryURL(registry, ans))   \* "registry"
    ELSE errors

\* Validate: the registry is checked when it is not empty
checkRegistry(errors, registry, ans) ==
    IF registry # EmptyStr
    THEN addIfError(errors, <<"r","e","g","i","s","t","r","y">>, validateRegistryURL(registry, ans))   \* "registry"
    ELSE errors

\* Validate: a float64 job count below zero is an error
checkJobs(errors, raw) ==
    IF HasKey(raw, "jobs") /\ raw.jobs.type = "float64" /\ raw.jobs.val < 0
    THEN AddError(errors, <<"j","o","b","s">>, <<"j","o","b","s"," ","m","u","s","t"," ","b","e"," ","a"," ","p","o","s","i","t","i","v","e"," ","i","n","t","e","g","e","r">>)   \* "jobs" "jobs must be a positive integer"
    ELSE errors

\* helpers.ValidationBuilder.Build()
Build(errors) == [Valid |-> Len(errors) = 0, Errors |-> errors]

\* Validate(ctx, config) with the resolver answering ans
validate(raw, ans) ==
    Build(checkJobs(
            checkRegistry(
                addIfError(<<>>, <<"m","a","n","i","f","e","s","t","_","p","a","t","h">>,   \* "manifest_path"
                           validatePath(GetString(raw, "manifest_path", EmptyStr, <<"C","a","r","g","o",".","t","o","m","l">>))),   \* "Cargo.toml"
                GetString(raw, "registry", EmptyStr, EmptyStr), ans),
            raw))

\* the number of calls of net.LookupIP Validate(ctx, config) makes
validateLookups(raw) ==
    IF resolves(GetString(raw, "registry", EmptyStr, EmptyStr)) THEN 1 ELSE 0
---------------------------------------------------------------------------
(* Inputs                                                                  *)

\* the empty configuration map
NoKeys == [k \in {} |-> TRUE]

Hooks == {HookPostPublish, <<"p","r","e","-","p","u","b","l","i","s","h">>}   \* "pre-publish"

EnvTokens == {EmptyStr, <<"e","n","v">>}   \* "env"

TokenParts == {NoKeys, [token |-> <<"t","o","k">>], [token |-> <<"-","-","n","o","-","v","e","r","i","f","y">>]}   \* "tok" "--no-verify"

RegistryParts ==
    {NoKeys} \cup
    { [registry |-> r] : r \in { <<"m","y","-","r","e","g","i","s","t","r","y">>, <<"m","y","_","b","a","d","!","n","a","m","e">>, <<"h","t","t","p","s",":","/","/","r",".","i","o","/","a","p","i">>,   \* "my-registry" "my_bad!name" "https://r.io/api"
                                 <<"s","p","a","r","s","e","+","h","t","t","p","s",":","/","/","r",".","i","o","/","i","n","d","e","x">>, <<"h","t","t","p",":","/","/","r",".","i","o">>,   \* "sparse+https://r.io/index" "http://r.io"
                                 <<"h","t","t","p",":","/","/","l","o","c","a","l","h","o","s","t",":","8","0","8","0">> } }   \* "http://localhost:8080"

ManifestParts ==
    {NoKeys} \cup
    { [manifest_path |-> m] : m \in { <<"C","a","r","g","o",".","t","o","m","l">>, <<"c","r","a","t","e","s","/","l","i","b","/","C","a","r","g","o",".","t","o","m","l">>, <<".","/","C","a","r","g","o",".","t","o","m","l">>,   \* "Cargo.toml" "crates/lib/Cargo.toml" "./Cargo.toml"
                                      <<"O","t","h","e","r",".","t","o","m","l">>, <<"/","e","t","c","/","C","a","r","g","o",".","t","o","m","l">>, <<".",".","/","x","/","C","a","r","g","o",".","t","o","m","l">>,   \* "Other.toml" "/etc/Cargo.toml" "../x/Cargo.toml"
                                      <<"a","/",".",".","/","b","/","C","a","r","g","o",".","t","o","m","l">> } }   \* "a/../b/Cargo.toml"

OptionParts ==
    { NoKeys,
      [allow_dirty |-> TRUE, features |-> <<<<"f","1">>, <<"f","2">>>>, jobs |-> [type |-> "int", val |-> 4]],   \* "f1" "f2"
      [no_verify |-> TRUE, all_features |-> TRUE, no_default_features |-> TRUE,
       jobs |-> [type |-> "float64", val |-> 0]] }

RawConfigs ==
    { t @@ r @@ m @@ o : t \in TokenParts, r \in RegistryParts,
                         m \in ManifestParts, o \in OptionParts }

Versions == {<<"v","1",".","2",".","3">>, <<"1",".","2",".","3">>, <<"v","v","1">>}   \* "v1.2.3" "1.2.3" "vv1"

Requests ==
    [ Hook : Hooks, Config : RawConfigs, Context : [Version : Versions], DryRun : BOOLEAN ]

PublicIP == <<93, 184, 216, 34>>

PrivateIP == <<10, 0, 0, 7>>

\* what the resolver may answer to net.LookupIP
DNSAnswers ==
    { [err |-> TRUE, ips |-> <<>>],
      [err |-> FALSE, ips |-> <<PublicIP>>],
      [err |-> FALSE, ips |-> <<PublicIP, PrivateIP>>] }

\* the resolver was not asked
NoAnswer == [err |-> TRUE, ips |-> <<>>, asked |-> FALSE]

\* what the executor may return: combined output and error
ToolOutcomes ==
    { [output |-> <<"U","p","l","o","a","d","i","n","g">>, err |-> Nil],   \* "Uploading"
      [output |-> <<"e","r","r","o","r",":"," ","b","o","o","m">>, err |-> Errorf(<<"e","x","i","t"," ","s","t","a","t","u","s"," ","1","0","1">>)],   \* "error: boom" "exit status 101"
      [output |-> EmptyStr, err |-> Errorf(<<"e","x","e","c",":"," ","\"","c","a","r","g","o","\"",":"," ","n","o","t"," ","f","o","u","n","d">>)] }   \* "exec: "cargo": not found"

\* exec.CommandContext kills the command when the context is done: what
\* CombinedOutput may then return, the error of the killed process or the
\* context's, with the output written so far
KilledOutcomes ==
    { [output |-> <<"U","p","l","o","a","d","i","n","g">>, err |-> Errorf(<<"s","i","g","n","a","l",":"," ","k","i","l","l","e","d">>)],   \* "Uploading" "signal: killed"
      [output |-> EmptyStr, err |-> Errorf(<<"c","o","n","t","e","x","t"," ","c","a","n","c","e","l","e","d">>)] }   \* "context canceled"

\* the executor running the command to its end whatever the context
CombinedOutputToCompletion(c) == ToolOutcomes

\* RealCommandExecutor.Run / RunInDir: what cmd.CombinedOutput() may return
\* under the context c
CombinedOutput(c) == IF c = "cancelled" THEN KilledOutcomes ELSE ToolOutcomes

NoOutcome == [none |-> TRUE]

\* a nil cmdExecutor: the CratesPlugin main serves is the zero value
NoExecutor == "nil"

\* getExecutor with the default executor kept in the field for the next call
getExecutorCached(field) ==
    IF field # NoExecutor THEN [executor |-> field, cmdExecutor |-> field]
    ELSE [executor |-> "RealCommandExecutor", cmdExecutor |-> "RealCommandExecutor"]

\* p.getExecutor(): the executor it returns and the field as it leaves it
getExecutor(field) ==
    IF field # NoExecutor THEN [executor |-> field, cmdExecutor |-> field]
    ELSE [executor |-> "RealCommandExecutor", cmdExecutor |-> field]

\* no error value yet: the call has not returned
NotReturned == [none |-> TRUE]

\* the configuration maps Validate is called with: those of Execute, and some
\* with a negative job count
ValidateConfigs ==
    RawConfigs \cup
    { m @@ [jobs |-> j] : m \in ManifestParts,
                          j \in { [type |-> "float64", val |-> -1], [type |-> "int", val |-> -1] } }

NoRequest == [none |-> TRUE]

NoConfig == [none |-> TRUE]

\* the configurations buildPublishArgs is applied to on its own
FeatureNames == {<<"f","1">>, <<"-","-","j","o","b","s">>}   \* "f1" "--jobs"

FeatureLists == UNION { [1..n -> FeatureNames] : n \in 0..MaxFeatures }

Configs ==
    [ Token             : {EmptyStr, <<"t","o","k">>, <<"-","-","n","o","-","v","e","r","i","f","y">>},   \* "tok" "--no-verify"
      Registry          : {EmptyStr, <<"m","y","-","r","e","g","i","s","t","r","y">>, <<"-","-","t","o","k","e","n">>},   \* "my-registry" "--token"
      AllowDirty        : BOOLEAN,
      NoVerify          : BOOLEAN,
      ManifestPath      : {EmptyStr, <<"C","a","r","g","o",".","t","o","m","l">>, <<"c","r","a","t","e","s","/","l","i","b","/","C","a","r","g","o",".","t","o","m","l">>},   \* "Cargo.toml" "crates/lib/Cargo.toml"
      Features          : FeatureLists,
      AllFeatures       : BOOLEAN,
      NoDefaultFeatures : BOOLEAN,
      Jobs              : (-1)..MaxJobs ]

---------------------------------------------------------------------------
(* Actions                                                                 *)

\* whether Execute(req) asks the resolver, cfg being parsed into c
asksResolver(r, c) == dispatch(r.Hook) = "publish" /\ validateConfigLookups(c) > 0

\* the state a call of Execute leaves: the request r, the environment's token
\* e, the configuration c parsed, the resolver's answer d and how far it got
Serve(r, e, c, d, p) ==
    /\ req' = r
    /\ env' = e
    /\ cfg' = c
    /\ dns' = d
    /\ pc' = p.pc
    /\ resp' = p.resp
    /\ calls' = p.calls
    /\ validated' = p.validated
    /\ lookups' = p.lookups
    /\ tool' = NoOutcome
    /\ ctx' = "live"
    /\ goerr' = p.err
    /\ cmdExecutor' = (IF p.pc = "running" THEN getExecutor(cmdExecutor).cmdExecutor
                       ELSE cmdExecutor)
    /\ UNCHANGED <<args, vresp, arg, result>>

\* the resolver's answer is drawn when the call asks for one
Parsed(r, e, c) ==
    \E d \in IF asksResolver(r, c) THEN DNSAnswers ELSE {NoAnswer} :
        Serve(r, e, c, d, execute(r, c, d))

\* Execute(ctx, req) up to its return or, in publish, to the call of the
\* executor; e is the value of CARGO_REGISTRY_TOKEN
Execute(r, e) ==
    /\ pc = "idle"
    /\ Parsed(r, e, parseConfig(r.Config, e))

\* the state the return of the executor leaves
Resume(o, p) ==
    /\ tool' = o
    /\ pc' = p.pc
    /\ calls' = p.calls
    /\ resp' = p.resp
    /\ goerr' = p.err
    /\ UNCHANGED <<env, req, dns, cfg, validated, lookups, args, ctx, vresp, arg, result,
                   cmdExecutor>>

\* the executor returns o to publish, which returns its response
ToolReturns(o) ==
    /\ pc = "running"
    /\ o \in CombinedOutput(ctx)
    /\ Resume(o, publishResult(calls, cfg, req.Context, o.output, o.err))

\* the host has the response; the plugin waits for the next request
Return ==
    /\ pc \in {"returned", "validated"}
    /\ pc' = "idle"
    /\ req' = NoRequest
    /\ env' = EmptyStr
    /\ dns' = NoAnswer
    /\ cfg' = NoConfig
    /\ tool' = NoOutcome
    /\ resp' = Pending
    /\ calls' = <<>>
    /\ validated' = 0
    /\ lookups' = 0
    /\ ctx' = "none"
    /\ goerr' = NotReturned
    /\ vresp' = Pending
    /\ UNCHANGED <<args, arg, result, cmdExecutor>>

\* the caller cancels the context (or its deadline passes) while the executor
\* is running the command
Cancel ==
    /\ pc = "running"
    /\ ctx = "live"
    /\ ctx' = "cancelled"
    /\ UNCHANGED <<pc, env, req, dns, cfg, calls, validated, lookups, tool, resp, args,
                   goerr, vresp, arg, result, cmdExecutor>>

\* the state a call of Validate leaves: the configuration map raw, the
\* resolver's answer d and the response v
Checked(raw, d, v) ==
    /\ pc' = "validated"
    /\ req' = [Config |-> raw]
    /\ dns' = d
    /\ vresp' = v
    /\ goerr' = Nil
    /\ lookups' = IF d = NoAnswer THEN 0 ELSE 1
    /\ UNCHANGED <<env, cfg, calls, validated, tool, resp, args, ctx, arg, result,
                   cmdExecutor>>

\* Validate(ctx, config): the whole handler
Validate(raw) ==
    /\ pc = "idle"
    /\ \E d \in IF validateLookups(raw) > 0 THEN DNSAnswers ELSE {NoAnswer} :
           Checked(raw, d, validate(raw, d))

Init ==
    /\ pc = "idle"
    /\ req = NoRequest
    /\ env = EmptyStr
    /\ dns = NoAnswer
    /\ cfg = NoConfig
    /\ tool = NoOutcome
    /\ resp = Pending
    /\ calls = <<>>
    /\ validated = 0
    /\ lookups = 0
    /\ args = <<>>
    /\ ctx = "none"
    /\ goerr = NotReturned
    /\ vresp = Pending
    /\ arg = EmptyStr
    /\ result = NotReturned
    /\ cmdExecutor = NoExecutor

Next ==
    \/ \E r \in Requests, e \in EnvTokens : Execute(r, e)
    \/ Cancel
    \/ \E o \in ToolOutcomes \cup KilledOutcomes : ToolReturns(o)
    \/ \E raw \in ValidateConfigs : Validate(raw)
    \/ Return

Spec == Init /\ [][Next]_vars

\* the killed or finished command exits, CombinedOutput returns and publish
\* goes on to its return: the executor's return is not postponed for ever
SpecLive == Spec /\ WF_vars(\E o \in ToolOutcomes \cup KilledOutcomes : ToolReturns(o))

\* buildPublishArgs applied on its own to a configuration
InitArgs ==
    /\ pc = "config"
    /\ cfg \in Configs
    /\ req = NoRequest
    /\ env = EmptyStr
    /\ dns = NoAnswer
    /\ tool = NoOutcome
    /\ resp = Pending
    /\ calls = <<>>
    /\ validated = 0
    /\ lookups = 0
    /\ args = <<>>
    /\ ctx = "none"
    /\ goerr = NotReturned
    /\ vresp = Pending
    /\ arg = EmptyStr
    /\ result = NotReturned
    /\ cmdExecutor = NoExecutor

BuildArgs ==
    /\ pc = "config"
    /\ args' = buildPublishArgs(cfg)
    /\ pc' = "built"
    /\ UNCHANGED <<env, req, dns, cfg, calls, validated, lookups, tool, resp,
                   ctx, goerr, vresp, arg, result, cmdExecutor>>

NextArgs == BuildArgs

SpecArgs == InitArgs /\ [][NextArgs]_vars


---------------------------------------------------------------------------
(* validatePath applied on its own                                         *)

PathChars == {".", "/", "a"}

\* the paths validatePath is applied to: every string of PathChars up to
\* MaxPathLen, and the paths of the documentation and of TestValidatePath
Paths ==
    UNION { [1..n -> PathChars] : n \in 0..MaxPathLen }
    \cup { <<"a","/","b","/","c">>, <<".","/","C","a","r","g","o",".","t","o","m","l">>, <<"c","r","a","t","e","s","/","l","i","b","/","C","a","r","g","o",".","t","o","m","l">>, <<"/","e","t","c","/","p","a","s","s","w","d">>, <<".",".","/","x">>,   \* "a/b/c" "./Cargo.toml" "crates/lib/Cargo.toml" "/etc/passwd" "../x"
           <<"a","/",".",".","/",".",".","/","x">>, <<"c","r","a","t","e","s","/",".",".","/",".",".","/","e","t","c","/","p","a","s","s","w","d">>, <<"a","/",".",".","/","b">>, <<".",".","c","f","g","/","C","a","r","g","o",".","t","o","m","l">>,   \* "a/../../x" "crates/../../etc/passwd" "a/../b" "..cfg/Cargo.toml"
           <<"a","/",".",".","b","/","C","a","r","g","o",".","t","o","m","l">> }   \* "a/..b/Cargo.toml"

InitPath ==
    /\ pc = "path"
    /\ arg \in Paths
    /\ result = NotReturned
    /\ cfg = NoConfig
    /\ req = NoRequest
    /\ env = EmptyStr
    /\ dns = NoAnswer
    /\ tool = NoOutcome
    /\ resp = Pending
    /\ calls = <<>>
    /\ validated = 0
    /\ lookups = 0
    /\ args = <<>>
    /\ ctx = "none"
    /\ goerr = NotReturned
    /\ vresp = Pending
    /\ cmdExecutor = NoExecutor

CheckPath ==
    /\ pc = "path"
    /\ result' = validatePath(arg)
    /\ pc' = "checked"
    /\ UNCHANGED <<env, req, dns, cfg, calls, validated, lookups, tool, resp, args,
                   ctx, goerr, vresp, arg, cmdExecutor>>

NextPath == CheckPath

SpecPath == InitPath /\ [][NextPath]_vars

---------------------------------------------------------------------------
(* validateRegistryURL applied on its own                                  *)

NameChars == {"a", "Z", "1", ".", "-", "_", ":", "/"}

\* the registries validateRegistryURL is applied to: every string of
\* NameChars up to MaxNameLen, and URLs
RegistryURLs ==
    UNION { [1..n -> NameChars] : n \in 0..MaxNameLen }
    \cup { <<"m","y","-","r","e","g","i","s","t","r","y">>, <<"m","y",".","r","e","g","i","s","t","r","y",".","c","o","m">>, <<"m","y","_","b","a","d","!","n","a","m","e">>,   \* "my-registry" "my.registry.com" "my_bad!name"
           <<"h","t","t","p","s",":","/","/","r",".","i","o","/","a","p","i">>, <<"s","p","a","r","s","e","+","h","t","t","p","s",":","/","/","r",".","i","o","/","i","n","d","e","x">>, <<"H","T","T","P","S",":","/","/","r",".","i","o">>,   \* "https://r.io/api" "sparse+https://r.io/index" "HTTPS://r.io"
           <<"h","t","t","p",":","/","/","r",".","i","o">>, <<"f","t","p",":","/","/","r",".","i","o">>, <<"s","p","a","r","s","e","+","h","t","t","p",":","/","/","r",".","i","o">>, <<"h","t","t","p","s",":","/","/","/","a","p","i">>,   \* "http://r.io" "ftp://r.io" "sparse+http://r.io" "https:///api"
           <<"h","t","t","p",":","/","/","l","o","c","a","l","h","o","s","t",":","8","0","8","0","/","i","n","d","e","x">>, <<"h","t","t","p",":","/","/","1","2","7",".","0",".","0",".","1",":","8","0","8","0","/","i","n","d","e","x">>, <<"f","t","p",":","/","/","[",":",":","1","]","/","x">>,   \* "http://localhost:8080/index" "http://127.0.0.1:8080/index" "ftp://[::1]/x"
           <<"h","t","t","p",":","/","/","L","O","C","A","L","H","O","S","T">>, <<"h","t","t","p",":","/","/","1","2","7",".","0",".","0",".","2">>, <<"h","t","t","p",":","/","/","l","o","c","a","l","h","o","s","t",".","r",".","i","o">>,   \* "http://LOCALHOST" "http://127.0.0.2" "http://localhost.r.io"
           <<"h","t","t","p",":","/","/","l","o","c","a","l","h","o","s","t",":","a","b","c">>, <<"h","t","t","p","s",":","/","/","r",".","i","o",":","x">> }   \* "http://localhost:abc" "https://r.io:x"

\* addresses the resolver may answer with, IPv4 and IPv6
SampleIPs ==
    { <<93, 184, 216, 34>>, <<10, 0, 0, 7>>, <<172, 31, 255, 255>>, <<172, 32, 0, 1>>,
      <<192, 168, 1, 1>>, <<127, 0, 0, 53>>, <<169, 254, 169, 254>>, <<0, 0, 0, 1>>,
      <<224, 0, 0, 251>>, <<240, 0, 0, 1>>,
      <<0, 0, 0, 0, 0, 0, 0, 0, 0, 0, 0, 0, 0, 0, 0, 1>>,          \* ::1
      <<254, 128, 0, 0, 0, 0, 0, 0, 0, 0, 0, 0, 0, 0, 0, 1>>,      \* fe80::1
      <<253, 0, 14, 194, 0, 0, 0, 0, 0, 0, 0, 0, 0, 0, 2, 84>>,    \* fd00:ec2::254
      <<254, 192, 0, 0, 0, 0, 0, 0, 0, 0, 0, 0, 0, 0, 0, 1>>,      \* fec0::1
      <<38, 6, 71, 0, 0, 0, 0, 0, 0, 0, 0, 0, 0, 0, 17, 17>>,      \* 2606:4700::1111
      <<255, 2, 0, 0, 0, 0, 0, 0, 0, 0, 0, 0, 0, 0, 0, 1>> }       \* ff02::1

\* what the resolver may answer: an error, or up to MaxIPs addresses
Answers ==
    { [err |-> TRUE, ips |-> <<>>] }
    \cup { [err |-> FALSE, ips |-> ips] :
             ips \in UNION { [1..n -> SampleIPs] : n \in 1..MaxIPs } }

InitURL ==
    /\ pc = "url"
    /\ arg \in RegistryURLs
    /\ result = NotReturned
    /\ cfg = NoConfig
    /\ req = NoRequest
    /\ env = EmptyStr
    /\ dns = NoAnswer
    /\ tool = NoOutcome
    /\ resp = Pending
    /\ calls = <<>>
    /\ validated = 0
    /\ lookups = 0
    /\ args = <<>>
    /\ ctx = "none"
    /\ goerr = NotReturned
    /\ vresp = Pending
    /\ cmdExecutor = NoExecutor

\* validateRegistryURL(arg), the resolver answering d when it is asked
CheckURL ==
    /\ pc = "url"
    /\ \E d \in IF resolves(arg) THEN Answers ELSE {NoAnswer} :
          /\ dns' = d
          /\ result' = validateRegistryURL(arg, d)
          /\ lookups' = IF d = NoAnswer THEN 0 ELSE 1
    /\ pc' = "checked"
    /\ UNCHANGED <<env, req, cfg, calls, validated, tool, resp, args, ctx, goerr, vresp, arg,
                   cmdExecutor>>

NextURL == CheckURL

SpecURL == InitURL /\ [][NextURL]_vars
---------------------------------------------------------------------------
(* Properties of Execute                                                   *)

\* a call of Execute is under way or has returned
InCall == pc \in {"running", "returned"}

\* the request is on the supported hook
Supported == req.Hook = <<"p","o","s","t","-","p","u","b","l","i","s","h">>   \* "post-publish"

\* no token in the configuration map nor in the environment
TokenAbsent == ~HasKey(req.Config, "token") /\ env = EmptyStr

\* the manifest path and the registry of the request pass validation
ManifestValid == validatePath(cfg.ManifestPath).isNil

RegistryValid == cfg.Registry = EmptyStr \/ validateRegistryURL(cfg.Registry, dns).isNil

ConfigValid == ManifestValid /\ RegistryValid

\* the executor was not invoked
NotInvoked == calls = <<>> /\ tool = NoOutcome

\* C1: a dry run on the supported hook never invokes the command executor,
\* whatever the configuration: the call returns without any Run / RunInDir
C1_DryRunNeverInvokes ==
    (InCall /\ Supported /\ req.DryRun) => (pc = "returned" /\ NotInvoked)

\* a dry run with a valid configuration and a token: what a real run would execute
C1_Witness ==
    /\ pc = "returned" /\ Supported /\ req.DryRun
    /\ ConfigValid /\ cfg.Token # EmptyStr /\ resp.Success

C3_UnhandledHook ==
    (InCall /\ ~Supported)
        => /\ pc = "returned"
           /\ resp.Success
           /\ resp.Message = <<"H","o","o","k"," ">> \o req.Hook \o <<" ","n","o","t"," ","h","a","n","d","l","e","d">>   \* "Hook " " not handled"
           /\ resp.Error = EmptyStr
           /\ validated = 0 /\ lookups = 0
           /\ NotInvoked

\* an unhandled hook with an invalid manifest path, a token, not a dry run
C3_Witness ==
    /\ pc = "returned" /\ ~Supported /\ ~req.DryRun
    /\ ~ManifestValid /\ cfg.Token # EmptyStr /\ resp.Success

\* C4: on the supported hook an invalid manifest path or registry makes
\* Execute fail with "configuration validation failed...", in dry-run and in
\* real mode, before the token check and before any executor invocation
C4_ValidationFirst ==
    (InCall /\ Supported /\ ~ConfigValid)
        => /\ pc = "returned"
           /\ ~resp.Success
           /\ HasPrefix(resp.Error, <<"c","o","n","f","i","g","u","r","a","t","i","o","n"," ","v","a","l","i","d","a","t","i","o","n"," ","f","a","i","l","e","d">>)   \* "configuration validation failed"
           /\ validated = 1
           /\ NotInvoked

\* a real run with an invalid registry and no token: the validation error
C4_Witness ==
    /\ pc = "returned" /\ Supported /\ ~req.DryRun /\ TokenAbsent
    /\ ManifestValid /\ ~RegistryValid
    /\ HasPrefix(resp.Error, <<"c","o","n","f","i","g","u","r","a","t","i","o","n"," ","v","a","l","i","d","a","t","i","o","n"," ","f","a","i","l","e","d">>)   \* "configuration validation failed"

\* C5: a dry run on the supported hook with a valid configuration succeeds
\* even when no token is resolvable
C5_DryRunNeedsNoToken ==
    (InCall /\ Supported /\ req.DryRun /\ ConfigValid /\ TokenAbsent)
        => (pc = "returned" /\ resp.Success)

C5_Witness ==
    /\ pc = "returned" /\ Supported /\ req.DryRun /\ ConfigValid /\ TokenAbsent
    /\ resp.Success /\ cfg.Token = EmptyStr

---------------------------------------------------------------------------
(* Properties of buildPublishArgs                                          *)

\* the optional flags in the order the specification lists them
FlagOrder ==
    << FlagToken, FlagRegistry, FlagAllowDirty, FlagNoVerify, FlagManifestPath,
       FlagFeatures, FlagAllFeatures, FlagNoDefaultFeatures, FlagJobs >>

\* the flags that are followed by a value
TakesValue(k) == k \in {1, 2, 5, 6, 9}

\* the rank in FlagOrder of the argument s, 0 when s is none of the flags
Rank(s) == IF \E k \in 1..Len(FlagOrder) : FlagOrder[k] = s
           THEN CHOOSE k \in 1..Len(FlagOrder) : FlagOrder[k] = s
           ELSE 0

\* The argument list a read by position from i on: the flags in
\* flag position, as <<rank, position>>, a value-taking flag consuming the
\* next argument; <<0, i>> where the argument at i is no flag or a value is
\* missing.
RECURSIVE ReadFlags(_, _)
ReadFlags(a, i) ==
    IF i > Len(a) THEN <<>>
    ELSE IF Rank(a[i]) = 0 \/ (TakesValue(Rank(a[i])) /\ i = Len(a)) THEN << <<0, i>> >>
    ELSE << <<Rank(a[i]), i>> >>
         \o ReadFlags(a, IF TakesValue(Rank(a[i])) THEN i + 2 ELSE i + 1)

\* the flags of the argument list built, after the subcommand
Flags == ReadFlags(args, 2)

\* the value the flag of rank k carries for the configuration c
ValueOf(k, c) ==
    CASE k = 1 -> c.Token
      [] k = 2 -> c.Registry
      [] k = 5 -> c.ManifestPath
      [] k = 6 -> Join(c.Features, <<",">>)   \* ","
      [] k = 9 -> FormatInt(c.Jobs)

\* whether the field of the flag of rank k is non-default in c
NonDefault(k, c) ==
    CASE k = 1 -> c.Token # EmptyStr
      [] k = 2 -> c.Registry # EmptyStr
      [] k = 3 -> c.AllowDirty
      [] k = 4 -> c.NoVerify
      [] k = 5 -> c.ManifestPath # EmptyStr /\ c.ManifestPath # <<"C","a","r","g","o",".","t","o","m","l">>   \* "Cargo.toml"
      [] k = 6 -> Len(c.Features) > 0
      [] k = 7 -> c.AllFeatures
      [] k = 8 -> c.NoDefaultFeatures
      [] k = 9 -> c.Jobs > 0

\* C6: the argument list starts with "publish" and its flags appear in the
\* fixed relative order --token, --registry, --allow-dirty, --no-verify,
\* --manifest-path, --features, --all-features, --no-default-features,
\* --jobs, each value-taking flag immediately followed by its value
C6_ArgsOrdered ==
    pc = "built" =>
        /\ Len(args) >= 1 /\ args[1] = <<"p","u","b","l","i","s","h">>   \* "publish"
        /\ \A n \in 1..Len(Flags) :
            /\ Flags[n][1] # 0
            /\ n > 1 => Flags[n - 1][1] < Flags[n][1]
            /\ TakesValue(Flags[n][1]) => args[Flags[n][2] + 1] = ValueOf(Flags[n][1], cfg)

\* a list with a value-taking flag before and after two bare flags, one value
\* spelled like a flag
C6_Witness ==
    /\ pc = "built"
    /\ cfg.Token = <<"-","-","n","o","-","v","e","r","i","f","y">> /\ cfg.AllowDirty /\ cfg.NoVerify   \* "--no-verify"
    /\ Len(cfg.Features) = 2 /\ cfg.Jobs > 0 /\ cfg.ManifestPath = <<"c","r","a","t","e","s","/","l","i","b","/","C","a","r","g","o",".","t","o","m","l">>   \* "crates/lib/Cargo.toml"
    /\ Len(Flags) = 6

\* C7: each optional flag is in the argument list exactly when its field is
\* non-default (token and registry non-empty, booleans true, manifest path
\* neither empty nor Cargo.toml, features non-empty, jobs > 0), at most once,
\* and --features carries the features joined by commas in order
C7_FlagIffNonDefault ==
    pc = "built" =>
        /\ \A n \in 1..Len(Flags) : Flags[n][1] # 0
        /\ \A k \in 1..Len(FlagOrder) :
              Cardinality({n \in 1..Len(Flags) : Flags[n][1] = k})
                  = IF NonDefault(k, cfg) THEN 1 ELSE 0
        /\ \A n \in 1..Len(Flags) :
              Flags[n][1] = 6 => args[Flags[n][2] + 1] = Join(cfg.Features, <<",">>)   \* ","

\* every field at its default but the job count, which is 0 or negative, and
\* the manifest path, which is the default file name
C7_Witness ==
    /\ pc = "built"
    /\ cfg.Jobs <= 0 /\ cfg.ManifestPath = <<"C","a","r","g","o",".","t","o","m","l">> /\ cfg.Token = EmptyStr   \* "Cargo.toml"
    /\ Len(cfg.Features) = 2 /\ cfg.Features[1] # cfg.Features[2]
    /\ Len(args) = 3

---------------------------------------------------------------------------
(* Properties of the invocation of the external tool                       *)

\* a real run that reaches the executor
RealRun == InCall /\ Supported /\ ~req.DryRun /\ ConfigValid /\ cfg.Token # EmptyStr

NonDefaultManifest == cfg.ManifestPath # EmptyStr /\ cfg.ManifestPath # <<"C","a","r","g","o",".","t","o","m","l">>   \* "Cargo.toml"

\* the last element of a path: what follows its last separator
Base(path) == SubSeq(path, LastSep(path, Len(path)) + 1, Len(path))

\* dir is the directory part of path: the path's last element, looked up in
\* dir, is the file the path names
IsDirOf(dir, path) == Clean(dir \o <<"/">> \o Base(path)) = Clean(path)   \* "/"

\* C8: a real run starts the tool with a working-directory override exactly
\* when the manifest path is non-default, the override being the directory
\* part of the manifest path (crates/lib for crates/lib/Cargo.toml); with the
\* default manifest path it runs in the ambient directory, without
\* --manifest-path
C8_WorkDir ==
    RealRun =>
        /\ Len(calls) = 1
        /\ calls[1].Method = "RunInDir" <=> NonDefaultManifest
        /\ NonDefaultManifest =>
              /\ calls[1].Dir # EmptyStr
              /\ IsDirOf(calls[1].Dir, cfg.ManifestPath)
              /\ cfg.ManifestPath = <<"c","r","a","t","e","s","/","l","i","b","/","C","a","r","g","o",".","t","o","m","l">> => calls[1].Dir = <<"c","r","a","t","e","s","/","l","i","b">>   \* "crates/lib/Cargo.toml" "crates/lib"
        /\ ~NonDefaultManifest =>
              /\ calls[1].Method = "Run"
              /\ calls[1].Dir = EmptyStr
              /\ \A i \in 1..Len(calls[1].Args) : calls[1].Args[i] # <<"-","-","m","a","n","i","f","e","s","t","-","p","a","t","h">>   \* "--manifest-path"

C8_Witness ==
    /\ RealRun /\ pc = "running"
    /\ cfg.ManifestPath = <<"c","r","a","t","e","s","/","l","i","b","/","C","a","r","g","o",".","t","o","m","l">>   \* "crates/lib/Cargo.toml"
    /\ calls[1].Method = "RunInDir" /\ calls[1].Dir = <<"c","r","a","t","e","s","/","l","i","b">>   \* "crates/lib"

\* the release version without one leading "v"
Normalized(v) == IF Len(v) > 0 /\ v[1] = "v" THEN Tail(v) ELSE v

\* C9: the result of the invocation is mapped to the response: an executor
\* error gives Success=false and an error text containing "cargo publish
\* failed", the executor's error and the captured output; no error gives
\* Success=true and outputs with the normalized version, the registry and the
\* captured output
C9_OutcomeMapped ==
    (pc = "returned" /\ tool # NoOutcome) =>
        IF ~tool.err.isNil
        THEN /\ ~resp.Success
             /\ Contains(resp.Error, <<"c","a","r","g","o"," ","p","u","b","l","i","s","h"," ","f","a","i","l","e","d">>)   \* "cargo publish failed"
             /\ Contains(resp.Error, tool.err.text)
             /\ Contains(resp.Error, tool.output)
        ELSE /\ resp.Success
             /\ DOMAIN resp.Outputs = {"version", "registry", "output"}
             /\ resp.Outputs.version = Normalized(req.Context.Version)
             /\ resp.Outputs.registry = cfg.Registry
             /\ resp.Outputs.output = tool.output

\* a failed invocation that captured output
C9_Witness ==
    /\ pc = "returned" /\ tool # NoOutcome
    /\ ~tool.err.isNil /\ tool.output # EmptyStr /\ ~resp.Success

\* C10: Execute invokes the executor at most once, exactly once in a real run
\* with a valid configuration and a token; after a failed invocation it does
\* not invoke it again and returns the failure
C10_SingleAttempt ==
    /\ Len(calls) <= 1
    /\ RealRun => Len(calls) = 1
    /\ tool # NoOutcome => (pc = "returned" /\ Len(calls) = 1)
    /\ (tool # NoOutcome /\ ~tool.err.isNil) =>
          /\ ~resp.Success
          /\ Contains(resp.Error, tool.err.text)

\* the one invocation failed and the call has returned
C10_Witness ==
    /\ pc = "returned" /\ Len(calls) = 1
    /\ tool # NoOutcome /\ ~tool.err.isNil /\ tool.output = EmptyStr


---------------------------------------------------------------------------
(* Cancellation, responses, version and token                              *)

\* C11: when the caller's context is cancelled while the executor runs the
\* command of a real run, the command is aborted (what the executor returns is
\* the outcome of a killed command, not of a completed one) and Execute
\* eventually returns a response with Success=false carrying that error
C11_CancelAborts ==
    /\ []((pc = "returned" /\ ctx = "cancelled")
            => /\ tool \in KilledOutcomes
               /\ ~resp.Success
               /\ Contains(resp.Error, tool.err.text))
    /\ ((pc = "running" /\ ctx = "cancelled")
            ~> (pc = "returned" /\ ctx = "cancelled" /\ ~resp.Success))

\* a real run in a working directory was cancelled and has returned its failure
C11_Witness ==
    /\ pc = "returned" /\ ctx = "cancelled" /\ ~resp.Success
    /\ Len(calls) = 1 /\ calls[1].Method = "RunInDir"

\* the call of Execute fails: validation, missing token of a real run, or tool
ExecuteFails ==
    /\ Supported
    /\ \/ ~ConfigValid
       \/ ~req.DryRun /\ cfg.Token = EmptyStr
       \/ tool # NoOutcome /\ ~tool.err.isNil

OneVRemoved(version) ==
    IF Len(version) > 0 /\ version[1] = "v" THEN SubSeq(version, 2, Len(version)) ELSE version

C14_TokenOrder ==
    InCall =>
        /\ cfg.Token = (IF HasKey(req.Config, "token") THEN req.Config.token ELSE env)
        /\ ~HasKey(req.Config, "manifest_path") => cfg.ManifestPath = <<"C","a","r","g","o",".","t","o","m","l">>   \* "Cargo.toml"
        /\ ~HasKey(req.Config, "registry") => cfg.Registry = EmptyStr
        /\ ~HasKey(req.Config, "allow_dirty") => cfg.AllowDirty = FALSE
        /\ ~HasKey(req.Config, "no_verify") => cfg.NoVerify = FALSE
        /\ ~HasKey(req.Config, "all_features") => cfg.AllFeatures = FALSE
        /\ ~HasKey(req.Config, "no_default_features") => cfg.NoDefaultFeatures = FALSE
        /\ ~HasKey(req.Config, "features") => cfg.Features = <<>>
        /\ ~HasKey(req.Config, "jobs") => cfg.Jobs = 0

\* the token is in the map and in the environment: the map's is taken
C14_Witness ==
    /\ InCall /\ HasKey(req.Config, "token") /\ env # EmptyStr
    /\ cfg.Token = req.Config.token /\ cfg.Token # env
    /\ ~HasKey(req.Config, "manifest_path") /\ ~HasKey(req.Config, "jobs")

---------------------------------------------------------------------------
(* Properties of validatePath                                              *)

\* the position of the first separator of s from i on, Len(s) + 1 without one
RECURSIVE SepFrom(_, _)
SepFrom(s, i) == IF i > Len(s) \/ s[i] = "/" THEN i ELSE SepFrom(s, i + 1)

\* the segments of s between its separators, from position i on
RECURSIVE SegmentsFrom(_, _)
SegmentsFrom(s, i) ==
    IF i > Len(s) + 1 THEN <<>>
    ELSE <<SubSeq(s, i, SepFrom(s, i) - 1)>> \o SegmentsFrom(s, SepFrom(s, i) + 1)

\* s has a parent-directory segment
HasParentSegment(s) ==
    \E k \in 1..Len(SegmentsFrom(s, 1)) : SegmentsFrom(s, 1)[k] = <<".",".">>   \* ".."

\* the path is absolute
Absolute(s) == Len(s) > 0 /\ s[1] = "/"

\* C15: validatePath accepts the empty path and rejects every absolute path
\* and every path whose normalized form has a ".." segment, at its start or
\* further on; it accepts "a/b/c" and "./Cargo.toml" and rejects
\* "/etc/passwd", "../x" and "a/../../x"
C15_PathChecked ==
    pc = "checked" =>
        /\ arg = EmptyStr => result.isNil
        /\ Absolute(arg) => ~result.isNil
        /\ (arg # EmptyStr /\ HasParentSegment(Clean(arg))) => ~result.isNil
        /\ arg \in {<<"a","/","b","/","c">>, <<".","/","C","a","r","g","o",".","t","o","m","l">>} => result.isNil   \* "a/b/c" "./Cargo.toml"
        /\ arg \in {<<"/","e","t","c","/","p","a","s","s","w","d">>, <<".",".","/","x">>, <<"a","/",".",".","/",".",".","/","x">>} => ~result.isNil   \* "/etc/passwd" "../x" "a/../../x"

\* a traversal hidden behind a directory is rejected
C15_Witness ==
    /\ pc = "checked" /\ arg = <<"a","/",".",".","/",".",".","/","x">>   \* "a/../../x"
    /\ Clean(arg) = <<".",".","/","x">>   \* "../x"
    /\ result = ErrTraversal

---------------------------------------------------------------------------
(* Properties of validateRegistryURL                                       *)

AsciiLetters ==
    { "a", "b", "c", "d", "e", "f", "g", "h", "i", "j", "k", "l", "m",
      "n", "o", "p", "q", "r", "s", "t", "u", "v", "w", "x", "y", "z",
      "A", "B", "C", "D", "E", "F", "G", "H", "I", "J", "K", "L", "M",
      "N", "O", "P", "Q", "R", "S", "T", "U", "V", "W", "X", "Y", "Z" }

AsciiDigits == { "0", "1", "2", "3", "4", "5", "6", "7", "8", "9" }

\* a leading letter, then letters, digits, dots and dashes only
WellFormedName(s) ==
    /\ s # <<>>
    /\ s[1] \in AsciiLetters
    /\ \A i \in 1..Len(s) : s[i] \in AsciiLetters \cup AsciiDigits \cup {".", "-"}

\* the registry checked has no scheme separator
BareName == pc = "checked" /\ ~Contains(arg, <<":","/","/">>)   \* "://"

\* C16: a registry without "://" is accepted iff it is a leading ASCII
\* letter followed by letters, digits, dots and dashes only, and the
\* resolver is not asked
C16_BareName ==
    BareName => /\ result.isNil <=> WellFormedName(arg)
                /\ lookups = 0 /\ dns = NoAnswer

\* a name with an underscore is refused, without any resolution
C16_Witness ==
    /\ BareName /\ arg = <<"a","_","1">> /\ ~result.isNil /\ lookups = 0   \* "a_1"

\* the registry checked is a URL that url.Parse accepts
ParsedURL == pc = "checked" /\ Contains(arg, <<":","/","/">>) /\ ~urlParse(arg).err   \* "://"

\* its scheme and its host name
SchemeOf(u) == urlParse(u).Scheme

HostOf(u) == Hostname(urlParse(u).Host)

LoopbackForms == { <<"l","o","c","a","l","h","o","s","t">>, <<"1","2","7",".","0",".","0",".","1">>, <<":",":","1">> }   \* "localhost" "127.0.0.1" "::1"

SecureSchemes == { <<"h","t","t","p","s">>, <<"s","p","a","r","s","e","+","h","t","t","p","s">> }   \* "https" "sparse+https"

\* C17: a URL whose host is "localhost", "127.0.0.1" or "::1" is accepted
\* whatever its scheme, without any resolution; a URL with another host is
\* rejected unless its scheme is https or sparse+https
C17_SchemeOrLoopback ==
    ParsedURL =>
        /\ HostOf(arg) \in LoopbackForms => (result.isNil /\ lookups = 0)
        /\ (HostOf(arg) \notin LoopbackForms /\ SchemeOf(arg) \notin SecureSchemes)
              => ~result.isNil

\* the bracketed IPv6 loopback over ftp is accepted
C17_Witness ==
    /\ ParsedURL /\ arg = <<"f","t","p",":","/","/","[",":",":","1","]","/","x">>   \* "ftp://[::1]/x"
    /\ HostOf(arg) = <<":",":","1">> /\ result.isNil /\ lookups = 0   \* "::1"

\* the blocks of the addresses refused, as <<base, prefix length>>:
\* 10.0.0.0/8, 172.16.0.0/12, 192.168.0.0/16 (private), 127.0.0.0/8
\* (loopback), 169.254.0.0/16 and 224.0.0.0/24 (link-local, unicast and
\* multicast), 0.0.0.0/8 (reserved), fd00:ec2::254 (metadata), ::1, fe80::/10,
\* fc00::/7
RefusedBlocks ==
    { <<<<10, 0, 0, 0>>, 8>>, <<<<172, 16, 0, 0>>, 12>>, <<<<192, 168, 0, 0>>, 16>>,
      <<<<127, 0, 0, 0>>, 8>>, <<<<169, 254, 0, 0>>, 16>>, <<<<224, 0, 0, 0>>, 24>>,
      <<<<0, 0, 0, 0>>, 8>>,
      <<<<253, 0, 14, 194, 0, 0, 0, 0, 0, 0, 0, 0, 0, 0, 2, 84>>, 128>>,
      <<<<0, 0, 0, 0, 0, 0, 0, 0, 0, 0, 0, 0, 0, 0, 0, 1>>, 128>>,
      <<<<254, 128, 0, 0, 0, 0, 0, 0, 0, 0, 0, 0, 0, 0, 0, 0>>, 10>>,
      <<<<252, 0, 0, 0, 0, 0, 0, 0, 0, 0, 0, 0, 0, 0, 0, 0>>, 7>> }

\* an IPv6 multicast address of link-local scope (ffx2::)
LinkLocalScope(ip) == Len(ip) = 16 /\ ip[1] = 255 /\ ip[2] % 16 = 2

Refused(ip) == LinkLocalScope(ip) \/ \E b \in RefusedBlocks : InBlock(ip, b[1], b[2])

\* the registry checked is a URL of a secure scheme and another host than
\* the loopback forms
SecureURL ==
    /\ ParsedURL
    /\ SchemeOf(arg) \in SecureSchemes
    /\ HostOf(arg) \notin LoopbackForms

---------------------------------------------------------------------------
(* Resolution failures, and the two validations                            *)

\* the resolver was asked and answered with an error
ResolutionFailed == lookups = 1 /\ dns.err

\* the response of Validate has an error for the field
HasFieldError(field) == \E i \in 1..Len(vresp.Errors) : vresp.Errors[i].Field = field

\* C19: when the resolution of the registry's host fails, the registry is
\* accepted: Validate reports no registry error and Execute does not fail
\* its validation
C19_FailOpen ==
    /\ (pc = "validated" /\ ResolutionFailed) => ~HasFieldError(<<"r","e","g","i","s","t","r","y">>)   \* "registry"
    /\ (InCall /\ Supported /\ ResolutionFailed)
          => \/ pc = "running"
             \/ ~HasPrefix(resp.Error, <<"c","o","n","f","i","g","u","r","a","t","i","o","n"," ","v","a","l","i","d","a","t","i","o","n"," ","f","a","i","l","e","d">>)   \* "configuration validation failed"

\* a real run published to a registry whose host did not resolve
C19_Witness ==
    /\ pc = "returned" /\ Supported /\ ~req.DryRun /\ ResolutionFailed
    /\ cfg.Registry = <<"h","t","t","p","s",":","/","/","r",".","i","o","/","a","p","i">>   \* "https://r.io/api"
    /\ resp.Success

\* the manifest path and the registry of the configuration map of the request
ReqManifest ==
    IF HasKey(req.Config, "manifest_path") THEN req.Config.manifest_path ELSE <<"C","a","r","g","o",".","t","o","m","l">>   \* "Cargo.toml"

ReqRegistry == IF HasKey(req.Config, "registry") THEN req.Config.registry ELSE EmptyStr

\* the registry is one that the validation refuses under the answer d
RegistryRefused(d) == ReqRegistry # EmptyStr /\ ~validateRegistryURL(ReqRegistry, d).isNil

\* C20: Validate reports one error per failing field: with the manifest
\* path and the registry both invalid it returns Valid=false with an error for
\* manifest_path and one for registry; Execute on the same configuration
\* reports the manifest-path error only and does not evaluate the registry
C20_Accumulates ==
    /\ (pc = "validated" /\ ~validatePath(ReqManifest).isNil /\ RegistryRefused(dns))
          => /\ ~vresp.Valid
             /\ HasFieldError(<<"m","a","n","i","f","e","s","t","_","p","a","t","h">>) /\ HasFieldError(<<"r","e","g","i","s","t","r","y">>)   \* "manifest_path" "registry"
    /\ (pc = "returned" /\ Supported /\ ~validatePath(ReqManifest).isNil
           /\ \E d \in DNSAnswers : RegistryRefused(d))
          => /\ ~resp.Success
             /\ resp.Error = <<"c","o","n","f","i","g","u","r","a","t","i","o","n"," ","v","a","l","i","d","a","t","i","o","n"," ","f","a","i","l","e","d",":"," ","i","n","v","a","l","i","d"," ","m","a","n","i","f","e","s","t","_","p","a","t","h",":"," ">>   \* "configuration validation failed: invalid manifest_path: "
                                \o validatePath(ReqManifest).text
             /\ lookups = 0 /\ dns = NoAnswer

\* Validate found a traversing manifest path and a registry that resolves to
\* a private address: two errors
C20_Witness ==
    /\ pc = "validated" /\ ~validatePath(ReqManifest).isNil /\ RegistryRefused(dns)
    /\ lookups = 1 /\ ~dns.err
    /\ Len(vresp.Errors) = 2

---------------------------------------------------------------------------
(* The job count in Validate                                               *)

\* the configuration map of the request specifies a job count
JobsSpecified == HasKey(req.Config, "jobs")

\* C21: Validate requires a specified job count to be positive: a "jobs"
\* value that is negative or zero, of whatever numeric type, gives Valid=false
\* and an error for field "jobs"; without a "jobs" key there is no jobs error
C21_JobsPositive ==
    pc = "validated" =>
        /\ (JobsSpecified /\ req.Config.jobs.val <= 0)
              => (~vresp.Valid /\ HasFieldError(<<"j","o","b","s">>))   \* "jobs"
        /\ ~JobsSpecified => ~HasFieldError(<<"j","o","b","s">>)   \* "jobs"

\* Validate found a configuration with a job count of zero valid
C21_Witness ==
    /\ pc = "validated" /\ JobsSpecified
    /\ req.Config.jobs = [type |-> "float64", val |-> 0]
    /\ vresp.Valid /\ ~HasFieldError(<<"j","o","b","s">>)   \* "jobs"

---------------------------------------------------------------------------
(* State across invocations                                                *)

\* the response of the call of Execute computed from what the call itself
\* receives: its request, the environment's token, the resolver's answer and
\* the outcome of its tool invocation
OwnResponse ==
    IF tool = NoOutcome
    THEN execute(req, parseConfig(req.Config, env), dns).resp
    ELSE publishResult(<<>>, parseConfig(req.Config, env), req.Context,
                       tool.output, tool.err).resp

---------------------------------------------------------------------------
(* The preview of the command, the token and the manifest                  *)

\* the same request as a real run
AsRealRun == [req EXCEPT !.DryRun = FALSE]

\* the command line of a call of the executor: the program and its arguments
CommandLine(call) == Join(<<call.Name>> \o call.Args, <<" ">>)   \* " "

\* a dry run on the supported hook returned, for a valid configuration with
\* a token
Preview ==
    /\ pc = "returned" /\ Supported /\ req.DryRun
    /\ ConfigValid /\ cfg.Token # EmptyStr

\* C23: the "command" output of a dry run is "cargo" followed by the
\* argument list a real run with the same configuration passes to the
\* executor, joined by single spaces
C23_PreviewIsCommand ==
    Preview => /\ execute(AsRealRun, cfg, dns).pc = "running"
               /\ resp.Outputs.command = CommandLine(execute(AsRealRun, cfg, dns).calls[1])

\* the preview names the subcommand twice where the real run passes it once
C23_Witness ==
    /\ Preview
    /\ HasPrefix(resp.Outputs.command, <<"c","a","r","g","o"," ","p","u","b","l","i","s","h"," ","p","u","b","l","i","s","h">>)   \* "cargo publish publish"
    /\ HasPrefix(CommandLine(execute(AsRealRun, cfg, dns).calls[1]), <<"c","a","r","g","o"," ","p","u","b","l","i","s","h"," ","-","-","t","o","k","e","n">>)   \* "cargo publish --token"

\* token values to compare a call with
OtherTokens == { <<"t","o","k">>, <<"e","n","v">>, <<"s","e","c","r","e","t">> }   \* "tok" "env" "secret"

\* the response of the call had its token been t, everything else, the
\* outcome of the tool included, being the same
ResponseWithToken(t) ==
    IF tool = NoOutcome
    THEN execute(req, [cfg EXCEPT !.Token = t], dns).resp
    ELSE publishResult(<<>>, [cfg EXCEPT !.Token = t], req.Context,
                       tool.output, tool.err).resp

\* C24: the token does not flow into the response of Execute: with another
\* non-empty token and the same tool outcome the response (message, outputs
\* and error) is the same, for a dry run and for a real run
C24_TokenNotInResponse ==
    (pc = "returned" /\ Supported /\ cfg.Token # EmptyStr)
        => \A t \in OtherTokens : resp = ResponseWithToken(t)

\* the response of a dry run carries the token in its "command" output
C24_Witness ==
    /\ Preview
    /\ Contains(resp.Outputs.command, <<"-","-","t","o","k","e","n"," ">> \o cfg.Token)   \* "--token "
    /\ \E t \in OtherTokens : resp # ResponseWithToken(t)

\* the value that follows --manifest-path in the argument list a, read by
\* position
ManifestArg(a) ==
    a[ReadFlags(a, 2)[CHOOSE n \in 1..Len(ReadFlags(a, 2)) : ReadFlags(a, 2)[n][1] = 5][2] + 1]

\* the file a relative path names for a process whose working directory is
\* dir (relative to the ambient working directory)
Resolve(dir, path) == Clean(dir \o <<"/">> \o path)   \* "/"

\* C25: in a real run with a non-default manifest path P, the value of
\* --manifest-path resolved against the directory the tool is started in
\* (the directory part of P) is the file P names from the ambient working
\* directory
C25_ManifestPointed ==
    (RealRun /\ NonDefaultManifest)
        => Resolve(calls[1].Dir, ManifestArg(calls[1].Args)) = Clean(cfg.ManifestPath)

\* the tool started in crates/lib is told to read crates/lib/Cargo.toml there
C25_Witness ==
    /\ RealRun /\ NonDefaultManifest
    /\ cfg.ManifestPath = <<"c","r","a","t","e","s","/","l","i","b","/","C","a","r","g","o",".","t","o","m","l">>   \* "crates/lib/Cargo.toml"
    /\ calls[1].Dir = <<"c","r","a","t","e","s","/","l","i","b">>   \* "crates/lib"
    /\ ManifestArg(calls[1].Args) = <<"c","r","a","t","e","s","/","l","i","b","/","C","a","r","g","o",".","t","o","m","l">>   \* "crates/lib/Cargo.toml"
    /\ Resolve(calls[1].Dir, ManifestArg(calls[1].Args)) = <<"c","r","a","t","e","s","/","l","i","b","/","c","r","a","t","e","s","/","l","i","b","/","C","a","r","g","o",".","t","o","m","l">>   \* "crates/lib/crates/lib/Cargo.toml"

\* the normalized form of the path leaves the working tree: its first
\* segment is ".."
Escapes(path) == SegmentsFrom(Clean(path), 1)[1] = <<".",".">>   \* ".."

\* C26: validatePath rejects nothing but escapes: a path is rejected only if
\* it is absolute or its normalized form begins with a ".." segment; "a/../b",
\* "..cfg/Cargo.toml" and "a/..b/Cargo.toml" are accepted
C26_OnlyEscapes ==
    pc = "checked" =>
        /\ ~result.isNil => (Absolute(arg) \/ Escapes(arg))
        /\ arg \in {<<"a","/",".",".","/","b">>, <<".",".","c","f","g","/","C","a","r","g","o",".","t","o","m","l">>, <<"a","/",".",".","b","/","C","a","r","g","o",".","t","o","m","l">>} => result.isNil   \* "a/../b" "..cfg/Cargo.toml" "a/..b/Cargo.toml"

\* a directory whose name begins with two dots is refused as a traversal
C26_Witness ==
    /\ pc = "checked" /\ arg = <<".",".","c","f","g","/","C","a","r","g","o",".","t","o","m","l">>   \* "..cfg/Cargo.toml"
    /\ ~Absolute(arg) /\ ~Escapes(arg) /\ ~HasParentSegment(Clean(arg))
    /\ result = ErrTraversal
====
